---- MODULE Spec2Model ----
(***************************************************************************)
(* Inventory backend (src/main.py, src/schemas.py): the receipt/delivery   *)
(* lifecycle engine, the product catalogue it mutates and the move ledger  *)
(* it appends to.                                                          *)
(*                                                                         *)
(* The document store is modelled by what the handlers use of it: a        *)
(* collection is a sequence of documents in insertion order, find_one and  *)
(* update_one act on the first document matching the filter, and           *)
(* count_documents is the length of the collection.                        *)
(*                                                                         *)
(* Spec is the engine with requests handled one at a time: each action of  *)
(* Next is one whole request handler.  The catalogue is input data (it is  *)
(* written by /seed and PATCH /products, outside the lifecycle engine), so *)
(* Init draws it from a bounded set; the operation collections and the     *)
(* ledger start empty.  Fields the handlers only copy (contact,            *)
(* schedule_date, responsible, the Move's date) are left out.  A handler's *)
(* response is stored nowhere: each handler is an operator giving, for the *)
(* state the request finds, the response and the collections afterwards,   *)
(* and the action assigns the collections.                                 *)
(*                                                                         *)
(* Concurrent is the engine with requests interleaved: a handler's store   *)
(* operations (find_one, count_documents, each update_one, each insert)    *)
(* are separate steps, each atomic, and any request in flight may take the *)
(* next step.  What a handler computes between two store operations is     *)
(* local to it and goes with the store operation before it.                *)
(***************************************************************************)
EXTENDS Integers, Sequences, FiniteSets, Bags, TLC

\* ------------------------------------------------------------------ bounds
\* Operations (receipts plus deliveries) the store may hold.
MaxOps == 2
\* Lines the store may hold, over all operations.
MaxLines == 2
\* Initial on_hand of a product.
MaxStock == 1
\* Requests in flight at once (Concurrent).
MaxInFlight == 2
\* Moves in the ledger (Concurrent, where an operation may be validated
\* again and again).
MaxMoves == 2

\* ------------------------------------------------------------------ inputs
Skus == {"DESK001", "TABLE001"}
\* The lines a creation payload may carry: each sku, with two different
\* quantities between them (ReceiptLine, DeliveryLine: quantity >= 0).
Line == {[product_sku |-> "DESK001", quantity |-> 1],
         [product_sku |-> "TABLE001", quantity |-> 2]}
LinePayloads(n) == UNION {[1..k -> Line] : k \in 0..n}
Actions == {"todo", "validate", "cancel", "archive"}
None == "None"

\* ------------------------------------------------------------------ state
VARIABLES product, receipt, delivery, move, inflight, start
vars == <<product, receipt, delivery, move, inflight, start>>

\* product: the product collection, a document [on_hand, free_to_use] per
\* sku it holds.  receipt, delivery: the operation collections, documents
\* [reference, from_location, to_location, status, lines] in insertion
\* order.  move: the ledger, Move documents in insertion order.
\* inflight: the requests being handled, each with the store operations its
\* handler has still to do (a bag: two requests may be in the same position).
\* start: the catalogue the engine started from, never written.

\* ------------------------------------------------------------------ store
RECURSIVE first_match(_, _, _)
first_match(col, reference, i) ==
  IF i > Len(col) THEN 0
  ELSE IF col[i].reference = reference THEN i
  ELSE first_match(col, reference, i + 1)

\* find_one with the filter dropped: the first document of the collection.
find_one_unfiltered(col, reference) == IF Len(col) > 0 THEN 1 ELSE 0

\* find_one({"reference": reference}): index of the first match, 0 for None.
find_one(col, reference) == first_match(col, reference, 1)

\* The count taken one too high.
count_documents_next(col) == Len(col) + 1

\* count_documents({})
count_documents(col) == Len(col)

\* create_document(collection, doc): the document goes last.
create_document(col, doc) == Append(col, doc)

\* update_one({"reference": reference}, {"$set": {"status": status}})
set_status(col, reference, status) ==
  LET i == find_one(col, reference)
  IN IF i = 0 THEN col ELSE [col EXCEPT ![i].status = status]

\* The $inc with free_to_use forgotten.
inc_stock_on_hand_only(prod, sku, d) ==
  IF sku \in DOMAIN prod
  THEN [prod EXCEPT ![sku] = [on_hand |-> @.on_hand + d, free_to_use |-> @.free_to_use]]
  ELSE prod

\* The $inc with on_hand forgotten.
inc_stock_free_only(prod, sku, d) ==
  IF sku \in DOMAIN prod
  THEN [prod EXCEPT ![sku] = [on_hand |-> @.on_hand, free_to_use |-> @.free_to_use + d]]
  ELSE prod

\* The $inc as an upsert: a missing product is created with the delta.
inc_stock_upsert(prod, sku, d) ==
  [s \in DOMAIN prod \cup {sku} |->
     IF s = sku
     THEN IF sku \in DOMAIN prod
          THEN [on_hand |-> prod[sku].on_hand + d, free_to_use |-> prod[sku].free_to_use + d]
          ELSE [on_hand |-> d, free_to_use |-> d]
     ELSE prod[s]]

\* update_one({"sku": sku}, {"$inc": {"on_hand": d, "free_to_use": d}})
inc_stock(prod, sku, d) ==
  IF sku \in DOMAIN prod
  THEN [prod EXCEPT ![sku] = [on_hand |-> @.on_hand + d,
                              free_to_use |-> @.free_to_use + d]]
  ELSE prod

\* ------------------------------------------------------------------ references
\* The count padded to width 3 instead of 4.
Pad3(count) ==
  LET s == ToString(count)
  IN IF Len(s) >= 3 THEN s
     ELSE IF Len(s) = 2 THEN "0" \o s
     ELSE "00" \o s

\* f"{count:04d}": the decimal digits of count, zero-padded to width 4.
Pad4(count) ==
  LET s == ToString(count)
  IN IF Len(s) >= 4 THEN s
     ELSE IF Len(s) = 3 THEN "0" \o s
     ELSE IF Len(s) = 2 THEN "00" \o s
     ELSE "000" \o s

receipt_reference(count) == "WH/IN/" \o Pad4(count)
delivery_reference(count) == "WH/OUT/" \o Pad4(count)

\* References a request may name: those the store has handed out, the next
\* one of the type (which no operation has yet) and one of the other type.
ReceiptReferences ==
  {receipt_reference(n) : n \in 1..(Len(receipt) + 1)} \cup {delivery_reference(1)}
DeliveryReferences ==
  {delivery_reference(n) : n \in 1..(Len(delivery) + 1)} \cup {receipt_reference(1)}

\* ------------------------------------------------------------------ engine
\* The stock loop with the sign of the delta dropped: always "stock in".
RECURSIVE apply_stock_unsigned(_, _, _, _)
apply_stock_unsigned(prod, lines, sign, i) ==
  IF i > Len(lines) THEN prod
  ELSE apply_stock_unsigned(inc_stock(prod, lines[i].product_sku, lines[i].quantity),
                            lines, sign, i + 1)

\* "Apply stock in" / "Apply stock out": one $inc per line, in line order.
RECURSIVE apply_stock(_, _, _, _)
apply_stock(prod, lines, sign, i) ==
  IF i > Len(lines) THEN prod
  ELSE apply_stock(inc_stock(prod, lines[i].product_sku, sign * lines[i].quantity),
                   lines, sign, i + 1)

Move(rec, line, direction) ==
  [reference |-> rec.reference, from_location |-> rec.from_location,
   to_location |-> rec.to_location, product_sku |-> line.product_sku,
   quantity |-> line.quantity, direction |-> direction, status |-> "Done"]

\* The move loop stopping one line early.
RECURSIVE log_moves_but_last(_, _, _, _)
log_moves_but_last(mv, rec, direction, i) ==
  IF i >= Len(rec.lines) THEN mv
  ELSE log_moves_but_last(create_document(mv, Move(rec, rec.lines[i], direction)),
                          rec, direction, i + 1)

\* "Log moves": one Move document per line, in line order.
RECURSIVE log_moves(_, _, _, _)
log_moves(mv, rec, direction, i) ==
  IF i > Len(rec.lines) THEN mv
  ELSE log_moves(create_document(mv, Move(rec, rec.lines[i], direction)),
                 rec, direction, i + 1)

\* The stock check reading on_hand instead of free_to_use.
insufficient_on_hand(prod, lines) ==
  {i \in 1..Len(lines) :
     \/ lines[i].product_sku \notin DOMAIN prod
     \/ prod[lines[i].product_sku].on_hand < lines[i].quantity}

\* The delivery's stock check: the lines whose product is missing or has
\* free_to_use below the line's quantity.
insufficient(prod, lines) ==
  {i \in 1..Len(lines) :
     \/ lines[i].product_sku \notin DOMAIN prod
     \/ prod[lines[i].product_sku].free_to_use < lines[i].quantity}

\* Guards a slip would give: todo and validate without the status test,
\* cancel with one.
todo_any_status(action, status) == action = "todo"
validate_any_status(action, status) == action = "validate"
cancel_draft_only(action, status) == action = "cancel" /\ status = "Draft"

\* todo re-running the stock check from Waiting as well as from Draft.
todo_draft_or_waiting(action, status) ==
  action = "todo" /\ status \in {"Draft", "Waiting"}

\* The guards of the handlers' branches (the same in receipt_action and in
\* delivery_action): todo acts on Draft, validate on Ready, cancel on any.
todo_applies(action, status) == action = "todo" /\ status = "Draft"
validate_applies(action, status) == action = "validate" /\ status = "Ready"
cancel_applies(action, status) == action = "cancel"

\* POST /receipts, with the payload's lines (its to_location absent, so
\* "STOCK"): the reference is the count of receipts plus one.  The result is
\* the receipt collection afterwards and the response, the new receipt.
create_receipt_result(lines) ==
  LET count == count_documents(receipt) + 1
      reference == receipt_reference(count)
      rec == [reference |-> reference, from_location |-> None,
              to_location |-> "STOCK", status |-> "Draft", lines |-> lines]
  IN [receipt |-> create_document(receipt, rec), response |-> rec]

create_receipt(lines) ==
  /\ receipt' = create_receipt_result(lines).receipt
  /\ UNCHANGED <<product, delivery, move>>

\* The branches of receipt_action on the action and the loaded status: the
\* status to persist, and the catalogue and the ledger once they are through.
receipt_outcome(rec, action, prod, mv) ==
  IF todo_applies(action, rec.status)
  THEN [status |-> "Ready", product |-> prod, move |-> mv]
  ELSE IF validate_applies(action, rec.status)
  THEN [status |-> "Done",
        product |-> apply_stock(prod, rec.lines, 1, 1),
        move |-> log_moves(mv, rec, "in", 1)]
  ELSE IF cancel_applies(action, rec.status)
  THEN [status |-> "Canceled", product |-> prod, move |-> mv]
  ELSE [status |-> rec.status, product |-> prod, move |-> mv]

\* POST /receipts/{reference}/action: the response (code, and the status it
\* returns) and the collections afterwards.
receipt_action_result(reference, action) ==
  LET i == find_one(receipt, reference)
  IN IF i = 0
     THEN [code |-> 404, status |-> "", product |-> product,
           receipt |-> receipt, move |-> move]
     ELSE LET out == receipt_outcome(receipt[i], action, product, move)
          IN [code |-> 200, status |-> out.status, product |-> out.product,
              receipt |-> set_status(receipt, reference, out.status),
              move |-> out.move]

receipt_action(reference, action) ==
  \E r \in {receipt_action_result(reference, action)} :
    /\ product' = r.product
    /\ receipt' = r.receipt
    /\ move' = r.move
    /\ UNCHANGED delivery

\* POST /deliveries, with the payload's lines (its to_location absent, so
\* "CUSTOMER"): the reference is the count of deliveries plus one.
create_delivery_result(lines) ==
  LET count == count_documents(delivery) + 1
      reference == delivery_reference(count)
      doc == [reference |-> reference, from_location |-> "STOCK",
              to_location |-> "CUSTOMER", status |-> "Draft", lines |-> lines]
  IN [delivery |-> create_document(delivery, doc), response |-> doc]

create_delivery(lines) ==
  /\ delivery' = create_delivery_result(lines).delivery
  /\ UNCHANGED <<product, receipt, move>>

\* The branches of delivery_action on the action and the loaded status.
delivery_outcome(rec, action, prod, mv) ==
  IF todo_applies(action, rec.status)
  THEN [status |-> IF insufficient(prod, rec.lines) # {} THEN "Waiting" ELSE "Ready",
        product |-> prod, move |-> mv]
  ELSE IF validate_applies(action, rec.status)
  THEN [status |-> "Done",
        product |-> apply_stock(prod, rec.lines, -1, 1),
        move |-> log_moves(mv, rec, "out", 1)]
  ELSE IF cancel_applies(action, rec.status)
  THEN [status |-> "Canceled", product |-> prod, move |-> mv]
  ELSE [status |-> rec.status, product |-> prod, move |-> mv]

\* POST /deliveries/{reference}/action
delivery_action_result(reference, action) ==
  LET i == find_one(delivery, reference)
  IN IF i = 0
     THEN [code |-> 404, status |-> "", product |-> product,
           delivery |-> delivery, move |-> move]
     ELSE LET out == delivery_outcome(delivery[i], action, product, move)
          IN [code |-> 200, status |-> out.status, product |-> out.product,
              delivery |-> set_status(delivery, reference, out.status),
              move |-> out.move]

delivery_action(reference, action) ==
  \E r \in {delivery_action_result(reference, action)} :
    /\ product' = r.product
    /\ delivery' = r.delivery
    /\ move' = r.move
    /\ UNCHANGED receipt

\* ------------------------------------------------------------------ specification
\* Catalogues the engine may start from: any subset of the skus, each
\* product with MaxStock pieces on hand of which any number is free to use.
Catalogues ==
  UNION {[S -> [on_hand : {MaxStock}, free_to_use : 0..MaxStock]] : S \in SUBSET Skus}

RECURSIVE stored_lines(_, _)
stored_lines(col, i) ==
  IF i > Len(col) THEN 0 ELSE Len(col[i].lines) + stored_lines(col, i + 1)

\* Room left in the store for one more operation, and for how many lines.
OpsLeft == MaxOps - (Len(receipt) + Len(delivery))
LinesLeft == MaxLines - (stored_lines(receipt, 1) + stored_lines(delivery, 1))

Init ==
  /\ product \in Catalogues
  /\ receipt = <<>>
  /\ delivery = <<>>
  /\ move = <<>>
  /\ inflight = EmptyBag
  /\ start = product

\* A request handled whole: none is left in flight.
CreateReceipt ==
  /\ OpsLeft > 0
  /\ \E lines \in LinePayloads(LinesLeft) : create_receipt(lines)
  /\ UNCHANGED <<inflight, start>>
ReceiptAction ==
  /\ \E reference \in ReceiptReferences, action \in Actions :
       receipt_action(reference, action)
  /\ UNCHANGED <<inflight, start>>
CreateDelivery ==
  /\ OpsLeft > 0
  /\ \E lines \in LinePayloads(LinesLeft) : create_delivery(lines)
  /\ UNCHANGED <<inflight, start>>
DeliveryAction ==
  /\ \E reference \in DeliveryReferences, action \in Actions :
       delivery_action(reference, action)
  /\ UNCHANGED <<inflight, start>>

Next == CreateReceipt \/ ReceiptAction \/ CreateDelivery \/ DeliveryAction

Spec == Init /\ [][Next]_vars

\* ------------------------------------------------------------------ interleaved requests
\* The validate branch as the store operations it issues, in order: one $inc
\* per line, then one Move insert per line.
\* The stock loop with the sign of the delta dropped.
stock_ops_unsigned(lines, sign) ==
  [i \in 1..Len(lines) |->
     [op |-> "inc", sku |-> lines[i].product_sku, d |-> lines[i].quantity]]
stock_ops(lines, sign) ==
  [i \in 1..Len(lines) |->
     [op |-> "inc", sku |-> lines[i].product_sku, d |-> sign * lines[i].quantity]]
\* The move loop stopping one line early.
move_ops_but_last(rec, direction) ==
  [i \in 1..(Len(rec.lines) - 1) |->
     [op |-> "move", doc |-> Move(rec, rec.lines[i], direction)]]
move_ops(rec, direction) ==
  [i \in 1..Len(rec.lines) |->
     [op |-> "move", doc |-> Move(rec, rec.lines[i], direction)]]

\* One pass over the lines, each line's Move right after its $inc.
RECURSIVE interleaved(_, _)
interleaved(a, b) ==
  IF a = <<>> THEN <<>> ELSE <<Head(a), Head(b)>> \o interleaved(Tail(a), Tail(b))
validate_ops_one_pass(rec, sign, direction) ==
  interleaved(stock_ops(rec.lines, sign), move_ops(rec, direction))

\* Two passes: every $inc, then every Move.
validate_ops(rec, sign, direction) ==
  stock_ops(rec.lines, sign) \o move_ops(rec, direction)

\* The stock check of a delivery's todo: one product read per line.
check_ops(lines) == [i \in 1..Len(lines) |-> [op |-> "check", line |-> lines[i]]]

\* The last store operation of an action handler: update_one with the
\* handler's local status.
persist == <<[op |-> "persist"]>>

\* A request in flight is what its handler still holds: the reference and
\* the lines of the document it loaded, its local status, its local list of
\* insufficient lines (short: whether it is non-empty), and the store
\* operations still to issue.  The action and the loaded status are read no
\* more once the branch is taken.
Request(kind, rec, status, ops) ==
  [kind |-> kind, reference |-> rec.reference, lines |-> rec.lines,
   status |-> status, short |-> FALSE, ops |-> ops]

\* receipt_action from find_one's answer to the first store operation after
\* it: the branch taken on the action and the loaded status.
receipt_request(rec, action) ==
  IF todo_applies(action, rec.status)
  THEN Request("receipt", rec, "Ready", persist)
  ELSE IF validate_applies(action, rec.status)
  THEN Request("receipt", rec, "Done", validate_ops(rec, 1, "in") \o persist)
  ELSE IF cancel_applies(action, rec.status)
  THEN Request("receipt", rec, "Canceled", persist)
  ELSE Request("receipt", rec, rec.status, persist)

\* delivery_action likewise; the status of a todo with lines to check is
\* assigned after the last check.
delivery_request(rec, action) ==
  IF todo_applies(action, rec.status)
  THEN Request("delivery", rec, IF rec.lines = <<>> THEN "Ready" ELSE rec.status,
               check_ops(rec.lines) \o persist)
  ELSE IF validate_applies(action, rec.status)
  THEN Request("delivery", rec, "Done", validate_ops(rec, -1, "out") \o persist)
  ELSE IF cancel_applies(action, rec.status)
  THEN Request("delivery", rec, "Canceled", persist)
  ELSE Request("delivery", rec, rec.status, persist)

\* A creation after count_documents: the document built from the count read,
\* still to insert.
creation(kind, doc) == Request(kind, doc, doc.status, <<[op |-> "insert", doc |-> doc]>>)

\* The requests in flight once r has issued its next store operation and
\* become r2; a request with nothing left to issue has returned.
issued(r, r2) ==
  (inflight (-) SetToBag({r}))
    (+) (IF r2.ops = <<>> THEN EmptyBag ELSE SetToBag({r2}))
advance(r) == [r EXCEPT !.ops = Tail(@)]

\* Documents and lines the store will hold once the creations in flight
\* have inserted.
RECURSIVE pending_lines(_)
pending_lines(rs) ==
  IF rs = {} THEN 0
  ELSE LET r == CHOOSE x \in rs : TRUE
       IN CopiesIn(r, inflight) * Len(r.lines) + pending_lines(rs \ {r})
Creating == {r \in BagToSet(inflight) : Head(r.ops).op = "insert"}
RECURSIVE copies(_)
copies(rs) ==
  IF rs = {} THEN 0
  ELSE LET r == CHOOSE x \in rs : TRUE
       IN CopiesIn(r, inflight) + copies(rs \ {r})
InFlight == copies(BagToSet(inflight))
OpsLeftC == OpsLeft - copies(Creating)
LinesLeftC == LinesLeft - pending_lines(Creating)
\* Moves the requests in flight have still to append, and the room the
\* ledger has left after them.
RECURSIVE owed(_)
owed(rs) ==
  IF rs = {} THEN 0
  ELSE LET r == CHOOSE x \in rs : TRUE
       IN CopiesIn(r, inflight) * Len(SelectSeq(r.ops, LAMBDA o : o.op = "move"))
          + owed(rs \ {r})
MovesLeft == MaxMoves - (Len(move) + owed(BagToSet(inflight)))

\* Has the request r in flight op as its next store operation?
next_op(r, op) == r \in BagToSet(inflight) /\ Head(r.ops).op = op
Collections == {"receipt", "delivery"}

\* create_receipt, create_delivery up to the insert: count_documents.
count_then_build(kind, lines) ==
  /\ inflight' = inflight (+) SetToBag({creation(kind,
                   IF kind = "receipt" THEN create_receipt_result(lines).response
                   ELSE create_delivery_result(lines).response)})
  /\ UNCHANGED <<product, receipt, delivery, move, start>>

\* receipt_action, delivery_action up to the first store operation after
\* find_one; a reference not found is answered 404 at once.
load(kind, reference, action) ==
  LET col == IF kind = "receipt" THEN receipt ELSE delivery
      i == find_one(col, reference)
  IN IF i = 0 THEN UNCHANGED vars
     ELSE \E r \in {IF kind = "receipt" THEN receipt_request(col[i], action)
                     ELSE delivery_request(col[i], action)} :
            /\ Len(SelectSeq(r.ops, LAMBDA o : o.op = "move")) <= MovesLeft
            /\ inflight' = inflight (+) SetToBag({r})
            /\ UNCHANGED <<product, receipt, delivery, move, start>>

\* create_document for the operation built.
insert(r) ==
  /\ next_op(r, "insert")
  /\ IF r.kind = "receipt"
     THEN receipt' = create_document(receipt, Head(r.ops).doc) /\ UNCHANGED delivery
     ELSE delivery' = create_document(delivery, Head(r.ops).doc) /\ UNCHANGED receipt
  /\ inflight' = issued(r, advance(r))
  /\ UNCHANGED <<product, move, start>>

\* One update_one with $inc of the stock loop.
inc(r) ==
  /\ next_op(r, "inc")
  /\ product' = inc_stock(product, Head(r.ops).sku, Head(r.ops).d)
  /\ inflight' = issued(r, advance(r))
  /\ UNCHANGED <<receipt, delivery, move, start>>

\* The ledger after one create_document("move", ...).
log_move_first(mv, doc) == <<doc>> \o mv
log_move(mv, doc) == create_document(mv, doc)

\* One insert of the move loop.
log(r) ==
  /\ next_op(r, "move")
  /\ move' = log_move(move, Head(r.ops).doc)
  /\ inflight' = issued(r, advance(r))
  /\ UNCHANGED <<product, receipt, delivery, start>>

\* One product read of the stock check; after the last one the todo's status
\* is assigned from the list of insufficient lines.
check(r) ==
  /\ next_op(r, "check")
  /\ LET short == r.short \/ insufficient(product, <<Head(r.ops).line>>) # {}
         last == Head(Tail(r.ops)).op = "persist"
     IN inflight' = issued(r, [advance(r) EXCEPT
                        !.short = short,
                        !.status = IF ~last THEN @
                                   ELSE IF short THEN "Waiting" ELSE "Ready"])
  /\ UNCHANGED <<product, receipt, delivery, move, start>>

\* The final update_one: the handler's local status is stored on the first
\* document with the reference.
persist_status(r) ==
  /\ next_op(r, "persist")
  /\ IF r.kind = "receipt"
     THEN receipt' = set_status(receipt, r.reference, r.status)
          /\ UNCHANGED delivery
     ELSE delivery' = set_status(delivery, r.reference, r.status)
          /\ UNCHANGED receipt
  /\ inflight' = issued(r, advance(r))
  /\ UNCHANGED <<product, move, start>>

Requests == BagToSet(inflight)

Count ==
  /\ InFlight < MaxInFlight
  /\ OpsLeftC > 0
  /\ \E kind \in Collections, lines \in LinePayloads(LinesLeftC) :
       count_then_build(kind, lines)
Load ==
  /\ InFlight < MaxInFlight
  /\ \E action \in Actions :
       \/ \E reference \in ReceiptReferences : load("receipt", reference, action)
       \/ \E reference \in DeliveryReferences : load("delivery", reference, action)
Insert == \E r \in Requests : insert(r)
Inc == \E r \in Requests : inc(r)
Log == \E r \in Requests : log(r)
Check == \E r \in Requests : check(r)
Persist == \E r \in Requests : persist_status(r)

NextConcurrent == Count \/ Load \/ Insert \/ Inc \/ Log \/ Check \/ Persist

Concurrent == Init /\ [][NextConcurrent]_vars

\* ------------------------------------------------------------------ properties
\* The quantity the lines ask of one sku, over all the lines naming it.
RECURSIVE line_total(_, _)
line_total(lines, sku) ==
  IF lines = <<>> THEN 0
  ELSE (IF Head(lines).product_sku = sku THEN Head(lines).quantity ELSE 0)
       + line_total(Tail(lines), sku)

\* The Moves of the ledger that carry a reference, in ledger order.
moves_of(mv, reference) == SelectSeq(mv, LAMBDA m : m.reference = reference)

\* The catalogue after every product's two quantities moved by sign times
\* what the lines ask of it.
stock_moved(prod, lines, sign) ==
  [sku \in DOMAIN prod |->
     [on_hand |-> prod[sku].on_hand + sign * line_total(lines, sku),
      free_to_use |-> prod[sku].free_to_use + sign * line_total(lines, sku)]]

\* mv is the ledger before with one Move per line appended, in line order,
\* each with the line's sku and quantity, the reference and the direction.
moves_appended(mv, before, rec, direction) ==
  /\ Len(mv) = Len(before) + Len(rec.lines)
  /\ SubSeq(mv, 1, Len(before)) = before
  /\ \A j \in 1..Len(rec.lines) :
       LET m == mv[Len(before) + j]
       IN /\ m.reference = rec.reference
          /\ m.product_sku = rec.lines[j].product_sku
          /\ m.quantity = rec.lines[j].quantity
          /\ m.direction = direction

\* C1: validate on a receipt stored as Ready stores Done, raises on_hand and
\* free_to_use of every product by the total its lines ask of it, and
\* appends one "in" Move per line with the line's sku and quantity and the
\* receipt's reference.
C1_ReceiptValidate ==
  \A i \in 1..Len(receipt) :
    receipt[i].status = "Ready" =>
      LET r == receipt_action_result(receipt[i].reference, "validate")
      IN /\ r.receipt[i].status = "Done"
         /\ r.product = stock_moved(product, receipt[i].lines, 1)
         /\ moves_appended(r.move, move, receipt[i], "in")

\* A validated receipt with two lines naming one product the catalogue holds.
C1_Witness ==
  \E i \in 1..Len(receipt) :
    /\ receipt[i].status = "Done"
    /\ Len(receipt[i].lines) = 2
    /\ receipt[i].lines[1].product_sku = receipt[i].lines[2].product_sku
    /\ receipt[i].lines[1].product_sku \in DOMAIN product
    /\ Len(moves_of(move, receipt[i].reference)) = 2

\* C2: validate on a delivery stored as Ready stores Done, lowers on_hand and
\* free_to_use of every product by the total its lines ask of it, and
\* appends one "out" Move per line with the line's sku and quantity and the
\* delivery's reference.
C2_DeliveryValidate ==
  \A i \in 1..Len(delivery) :
    delivery[i].status = "Ready" =>
      LET r == delivery_action_result(delivery[i].reference, "validate")
      IN /\ r.delivery[i].status = "Done"
         /\ r.product = stock_moved(product, delivery[i].lines, -1)
         /\ moves_appended(r.move, move, delivery[i], "out")

\* A validated delivery with a line on a product the catalogue holds.
C2_Witness ==
  \E i \in 1..Len(delivery) :
    /\ delivery[i].status = "Done"
    /\ Len(delivery[i].lines) >= 1
    /\ delivery[i].lines[1].product_sku \in DOMAIN product
    /\ Len(moves_of(move, delivery[i].reference)) = Len(delivery[i].lines)
    /\ move[Len(move)].direction = "out"

\* A line is covered when its product exists with free_to_use at least the
\* line's quantity.
covered(prod, line) ==
  /\ line.product_sku \in DOMAIN prod
  /\ prod[line.product_sku].free_to_use >= line.quantity

\* C3: todo on a Draft delivery stores Ready when every line is covered by
\* its product's free_to_use and Waiting when some line is not; it changes no
\* product and appends no Move.
C3_DeliveryTodo ==
  \A i \in 1..Len(delivery) :
    delivery[i].status = "Draft" =>
      LET r == delivery_action_result(delivery[i].reference, "todo")
          lines == delivery[i].lines
      IN /\ r.delivery[i].status =
              IF \A j \in 1..Len(lines) : covered(product, lines[j])
              THEN "Ready" ELSE "Waiting"
         /\ r.product = product
         /\ r.move = move

\* One delivery with lines went to Ready and another to Waiting.
C3_Witness ==
  \E i, j \in 1..Len(delivery) :
    /\ delivery[i].status = "Ready" /\ Len(delivery[i].lines) >= 1
    /\ delivery[j].status = "Waiting" /\ Len(delivery[j].lines) >= 1
    /\ move = <<>>

NonTerminal == {"Draft", "Ready", "Waiting"}
Terminal == {"Done", "Canceled"}

\* C4: cancel on a receipt or delivery in Draft, Ready or Waiting stores
\* Canceled and leaves every product and the ledger as they were.
C4_Cancel ==
  /\ \A i \in 1..Len(receipt) :
       receipt[i].status \in NonTerminal =>
         LET r == receipt_action_result(receipt[i].reference, "cancel")
         IN /\ r.receipt[i].status = "Canceled"
            /\ r.product = product
            /\ r.move = move
  /\ \A i \in 1..Len(delivery) :
       delivery[i].status \in NonTerminal =>
         LET r == delivery_action_result(delivery[i].reference, "cancel")
         IN /\ r.delivery[i].status = "Canceled"
            /\ r.product = product
            /\ r.move = move

\* A receipt and a delivery, both with lines, were canceled and nothing was
\* logged.
C4_Witness ==
  /\ \E i \in 1..Len(receipt) :
       receipt[i].status = "Canceled" /\ Len(receipt[i].lines) >= 1
  /\ \E i \in 1..Len(delivery) :
       delivery[i].status = "Canceled" /\ Len(delivery[i].lines) >= 1
  /\ move = <<>>

\* C5: validate on a receipt or delivery stored as Done returns Done and
\* leaves the products, the ledger and the stored status as they were.
C5_ValidateDone ==
  /\ \A i \in 1..Len(receipt) :
       receipt[i].status = "Done" =>
         LET r == receipt_action_result(receipt[i].reference, "validate")
         IN /\ r.code = 200 /\ r.status = "Done"
            /\ r.receipt = receipt
            /\ r.product = product
            /\ r.move = move
  /\ \A i \in 1..Len(delivery) :
       delivery[i].status = "Done" =>
         LET r == delivery_action_result(delivery[i].reference, "validate")
         IN /\ r.code = 200 /\ r.status = "Done"
            /\ r.delivery = delivery
            /\ r.product = product
            /\ r.move = move

\* A receipt and a delivery are Done, each with its line logged.
C5_Witness ==
  /\ \E i \in 1..Len(receipt) :
       receipt[i].status = "Done" /\ Len(receipt[i].lines) >= 1
  /\ \E i \in 1..Len(delivery) :
       delivery[i].status = "Done" /\ Len(delivery[i].lines) >= 1
  /\ Len(move) = 2

\* C6: Done and Canceled are terminal: a step never changes the stored
\* status of a receipt or delivery that is Done or Canceled.
C6_TerminalStatus ==
  [][/\ \A i \in 1..Len(receipt) :
          receipt[i].status \in Terminal => receipt'[i].status = receipt[i].status
     /\ \A i \in 1..Len(delivery) :
          delivery[i].status \in Terminal => delivery'[i].status = delivery[i].status]_vars

\* The action names that are none of the engine's, and the requests whose
\* guard on the stored status fails.
is_noop(action, status) ==
  \/ action \notin {"todo", "validate", "cancel"}
  \/ action = "todo" /\ status # "Draft"
  \/ action = "validate" /\ status # "Ready"

\* C7: an unknown action name, a todo on a status other than Draft and a
\* validate on a status other than Ready answer 200 with the stored status
\* and leave the operation, the products and the ledger as they were.
C7_NoOp ==
  /\ \A i \in 1..Len(receipt), action \in Actions :
       is_noop(action, receipt[i].status) =>
         LET r == receipt_action_result(receipt[i].reference, action)
         IN /\ r.code = 200 /\ r.status = receipt[i].status
            /\ r.receipt = receipt
            /\ r.product = product
            /\ r.move = move
  /\ \A i \in 1..Len(delivery), action \in Actions :
       is_noop(action, delivery[i].status) =>
         LET r == delivery_action_result(delivery[i].reference, action)
         IN /\ r.code = 200 /\ r.status = delivery[i].status
            /\ r.delivery = delivery
            /\ r.product = product
            /\ r.move = move

\* A Waiting delivery with lines beside a Ready receipt with lines: validate
\* on the first and todo on the second are such requests.
C7_Witness ==
  /\ \E i \in 1..Len(delivery) :
       /\ delivery[i].status = "Waiting" /\ Len(delivery[i].lines) >= 1
       /\ delivery_action_result(delivery[i].reference, "validate").status = "Waiting"
  /\ \E i \in 1..Len(receipt) :
       /\ receipt[i].status = "Ready" /\ Len(receipt[i].lines) >= 1
       /\ receipt_action_result(receipt[i].reference, "todo").status = "Ready"

\* The Moves of an operation are none, or one per line in line order with
\* the line's sku and quantity.
moves_match(rec, direction) ==
  LET ms == moves_of(move, rec.reference)
  IN /\ Len(ms) \in {0, Len(rec.lines)}
     /\ rec.status \in NonTerminal => Len(ms) = 0
     /\ rec.status = "Done" => Len(ms) = Len(rec.lines)
     /\ \A j \in 1..Len(ms) :
          /\ ms[j].product_sku = rec.lines[j].product_sku
          /\ ms[j].quantity = rec.lines[j].quantity
          /\ ms[j].direction = direction

\* C8: with requests one at a time, the ledger holds for every receipt and
\* delivery either no Move (none while it has not reached Done) or exactly
\* one Move per line (once it is Done), never more Moves than lines, and no
\* Move of any other reference.
C8_MovesPerLine ==
  /\ \A i \in 1..Len(receipt) : moves_match(receipt[i], "in")
  /\ \A i \in 1..Len(delivery) : moves_match(delivery[i], "out")
  /\ \A k \in 1..Len(move) :
       \/ \E i \in 1..Len(receipt) : receipt[i].reference = move[k].reference
       \/ \E i \in 1..Len(delivery) : delivery[i].reference = move[k].reference

\* A Done receipt with two lines and two Moves beside a delivery that has
\* not reached Done and has none.
C8_Witness ==
  /\ \E i \in 1..Len(receipt) :
       /\ receipt[i].status = "Done" /\ Len(receipt[i].lines) = 2
       /\ Len(moves_of(move, receipt[i].reference)) = 2
  /\ \E i \in 1..Len(delivery) :
       /\ delivery[i].status \in NonTerminal
       /\ Len(moves_of(move, delivery[i].reference)) = 0

\* No document of the collection has the reference.
unknown(col, reference) == \A i \in 1..Len(col) : col[i].reference # reference

\* C9: an action request naming a reference no receipt (no delivery) has is
\* answered 404 and leaves the operations, the products and the ledger as
\* they were.
C9_NotFound ==
  /\ \A reference \in ReceiptReferences, action \in Actions :
       unknown(receipt, reference) =>
         LET r == receipt_action_result(reference, action)
         IN /\ r.code = 404
            /\ r.receipt = receipt
            /\ r.product = product
            /\ r.move = move
  /\ \A reference \in DeliveryReferences, action \in Actions :
       unknown(delivery, reference) =>
         LET r == delivery_action_result(reference, action)
         IN /\ r.code = 404
            /\ r.delivery = delivery
            /\ r.product = product
            /\ r.move = move

\* A Ready receipt and a Ready delivery: each endpoint answers 404 to a
\* validate naming the other's reference.
C9_Witness ==
  /\ Len(receipt) = 1 /\ receipt[1].status = "Ready"
  /\ Len(delivery) = 1 /\ delivery[1].status = "Ready"
  /\ receipt_action_result(delivery[1].reference, "validate").code = 404
  /\ delivery_action_result(receipt[1].reference, "validate").code = 404

\* n in decimal, zero-padded to four digits, for n below 10000.
Digit == <<"0", "1", "2", "3", "4", "5", "6", "7", "8", "9">>
FourDigits(n) ==
  Digit[(n \div 1000) + 1] \o Digit[((n \div 100) % 10) + 1]
    \o Digit[((n \div 10) % 10) + 1] \o Digit[(n % 10) + 1]

\* Counts at which the number of digits changes, beside the first ones.
SampleCounts == {1, 2, 9, 10, 11, 99, 100, 101, 999, 1000, 1001, 9999}

\* C10: with creations one at a time, the n-th receipt has reference WH/IN/
\* and the n-th delivery WH/OUT/ followed by n zero-padded to four digits, a
\* creation stores the new operation as Draft under the next such reference,
\* and no two receipts and no two deliveries share a reference.
C10_References ==
  /\ \A n \in 1..Len(receipt) : receipt[n].reference = "WH/IN/" \o FourDigits(n)
  /\ \A n \in 1..Len(delivery) : delivery[n].reference = "WH/OUT/" \o FourDigits(n)
  /\ \A n \in SampleCounts :
       /\ receipt_reference(n) = "WH/IN/" \o FourDigits(n)
       /\ delivery_reference(n) = "WH/OUT/" \o FourDigits(n)
  /\ \A lines \in LinePayloads(LinesLeft) :
       /\ LET r == create_receipt_result(lines)
          IN /\ r.response.reference = "WH/IN/" \o FourDigits(Len(receipt) + 1)
             /\ r.response.status = "Draft"
             /\ r.receipt = Append(receipt, r.response)
       /\ LET r == create_delivery_result(lines)
          IN /\ r.response.reference = "WH/OUT/" \o FourDigits(Len(delivery) + 1)
             /\ r.response.status = "Draft"
             /\ r.delivery = Append(delivery, r.response)
  /\ \A m, n \in 1..Len(receipt) : receipt[m].reference = receipt[n].reference => m = n
  /\ \A m, n \in 1..Len(delivery) : delivery[m].reference = delivery[n].reference => m = n

\* The first and the second receipt created.
C10_Witness ==
  /\ Len(receipt) = 2
  /\ receipt[1].reference = "WH/IN/0001"
  /\ receipt[2].reference = "WH/IN/0002"
  /\ receipt[2].status = "Draft"

\* C15: with requests one at a time, from products with
\* 0 <= free_to_use <= on_hand, no product's on_hand or free_to_use is ever
\* negative (every Ready delivery passed the stock check of todo).
C15_NonNegativeStock ==
  \A sku \in DOMAIN product :
    product[sku].on_hand >= 0 /\ product[sku].free_to_use >= 0

\* Some line of the lines names a sku the catalogue does not hold.
names_missing(prod, lines) ==
  \E j \in 1..Len(lines) : lines[j].product_sku \notin DOMAIN prod

\* What C16 says of the validate branch's outcome on a loaded operation:
\* Done, no product created, the products the catalogue holds moved by what
\* the lines ask of them, and a Move appended for every line of a missing
\* sku too, with the line's quantity.
missing_skipped(out, rec, sign, direction) ==
  /\ out.status = "Done"
  /\ DOMAIN out.product = DOMAIN product
  /\ out.product = stock_moved(product, rec.lines, sign)
  /\ Len(out.move) = Len(move) + Len(rec.lines)
  /\ \A j \in 1..Len(rec.lines) :
       rec.lines[j].product_sku \notin DOMAIN product =>
         LET m == out.move[Len(move) + j]
         IN /\ m.product_sku = rec.lines[j].product_sku
            /\ m.quantity = rec.lines[j].quantity
            /\ m.reference = rec.reference
            /\ m.direction = direction

\* C16: validate on a Ready receipt with a line naming a missing sku answers
\* 200 with Done and stores Done; no product is created or changed for that
\* line, the other lines' products are updated and the missing sku's Move
\* is appended.  The same holds of delivery_action's validate branch on any
\* delivery naming a missing sku, taken as loaded with status Ready (the
\* stock check of todo sends such a delivery to Waiting, so the store never
\* holds one as Ready).
C16_MissingProduct ==
  /\ \A i \in 1..Len(receipt) :
       (receipt[i].status = "Ready" /\ names_missing(product, receipt[i].lines)) =>
         LET r == receipt_action_result(receipt[i].reference, "validate")
         IN /\ r.code = 200 /\ r.status = "Done"
            /\ r.receipt[i].status = "Done"
            /\ missing_skipped(r, receipt[i], 1, "in")
  /\ \A i \in 1..Len(delivery) :
       names_missing(product, delivery[i].lines) =>
         LET rec == [delivery[i] EXCEPT !.status = "Ready"]
         IN missing_skipped(delivery_outcome(rec, "validate", product, move),
                            rec, -1, "out")

\* A Done receipt whose first line names a missing sku and whose second
\* names a product the catalogue holds, both logged.
C16_Witness ==
  \E i \in 1..Len(receipt) :
    /\ receipt[i].status = "Done"
    /\ Len(receipt[i].lines) = 2
    /\ receipt[i].lines[1].product_sku \notin DOMAIN product
    /\ receipt[i].lines[2].product_sku \in DOMAIN product
    /\ Len(move) = 2
    /\ move[1].product_sku = receipt[i].lines[1].product_sku

\* C19: a delivery stored as Waiting is not stored as Ready or Done by any
\* later step: from Waiting the status only stays or becomes Canceled.
C19_WaitingStays ==
  [][\A i \in 1..Len(delivery) :
       delivery[i].status = "Waiting" =>
         delivery'[i].status \in {"Waiting", "Canceled"}]_vars

\* A Waiting delivery all of whose lines the stock covers by now, a receipt
\* having raised free_to_use since.
C19_Witness ==
  \E i \in 1..Len(delivery) :
    /\ delivery[i].status = "Waiting"
    /\ Len(delivery[i].lines) >= 1
    /\ \A j \in 1..Len(delivery[i].lines) : covered(product, delivery[i].lines[j])
    /\ \E k \in 1..Len(receipt) : receipt[k].status = "Done"

\* C11: from a catalogue with free_to_use <= on_hand for every product,
\* free_to_use <= on_hand holds for every product in every state the
\* interleaved requests reach.
C11_FreeWithinOnHand ==
  \A sku \in DOMAIN product : product[sku].free_to_use <= product[sku].on_hand

\* A receipt's validation and a delivery's validation in flight together,
\* the receipt's $inc issued and its Move not yet, on a catalogue where some
\* product has less free to use than on hand.
C11_Witness ==
  /\ \E r1, r2 \in Requests :
       /\ r1.kind = "receipt" /\ r2.kind = "delivery"
       /\ r1.status = "Done" /\ r2.status = "Done"
       /\ Len(r1.lines) >= 1 /\ Len(r2.lines) >= 1
       /\ Head(r1.ops).op = "move"
       /\ r1.lines[1].product_sku \in DOMAIN product
  /\ \E sku \in DOMAIN product : product[sku].free_to_use < product[sku].on_hand
  /\ product # start

\* C12: every step leaves the ledger as it was or adds one Move at its end,
\* and a step that adds a Move is a step of a request in the validate branch
\* (its local status is Done) appending the next Move of its loop, which
\* carries the request's reference.
C12_AppendOnly ==
  [][\/ move' = move
     \/ \E r \in Requests :
          /\ r.status = "Done"
          /\ Head(r.ops).op = "move"
          /\ Head(r.ops).doc.reference = r.reference
          /\ Head(r.ops).doc.direction = (IF r.kind = "receipt" THEN "in" ELSE "out")
          /\ Len(move') = Len(move) + 1
          /\ SubSeq(move', 1, Len(move)) = move
          /\ move'[Len(move')] = Head(r.ops).doc]_vars

\* A ledger holding the Moves of two operations, a receipt's before a
\* delivery's.
C12_Witness ==
  /\ Len(move) = 2
  /\ move[1].direction = "in" /\ move[2].direction = "out"
  /\ move[1].reference # move[2].reference
  /\ move[1].product_sku # move[2].product_sku

\* The documents a request by reference reaches: the first with each reference.
reachable_docs(col) == {i \in 1..Len(col) : find_one(col, col[i].reference) = i}
occurrences(seq, d) == Len(SelectSeq(seq, LAMBDA m : m = d))
\* The Moves one validation of rec appends, and how many validations of rec
\* the ledger records (0 for an operation without lines, which leaves none).
moves_expected(rec, direction) ==
  [j \in 1..Len(rec.lines) |-> Move(rec, rec.lines[j], direction)]
validations(rec) ==
  IF rec.lines = <<>> THEN 0
  ELSE Len(moves_of(move, rec.reference)) \div Len(rec.lines)
\* The ledger holds the Moves of rec validations(rec) times over.
ledger_holds(rec, direction) ==
  LET led == moves_of(move, rec.reference)
      docs == moves_expected(rec, direction)
  IN /\ Len(led) = validations(rec) * Len(rec.lines)
     /\ \A j \in 1..Len(docs) :
          occurrences(led, docs[j]) = validations(rec) * occurrences(docs, docs[j])
\* What the validations recorded for the documents of col ask of one sku.
RECURSIVE validated_total(_, _, _)
validated_total(col, sku, i) ==
  IF i > Len(col) THEN 0
  ELSE (IF i \in reachable_docs(col)
        THEN validations(col[i]) * line_total(col[i].lines, sku) ELSE 0)
       + validated_total(col, sku, i + 1)

\* C13: validations of one operation overlap and each one that read Ready
\* applies the deltas and appends the Moves in full: once no request is in
\* flight, the ledger holds every operation's Moves a whole number of times
\* over (twice for a doubled validation), and every product's quantities
\* have moved by that many times what the operations' lines ask of it.
C13_DoubleValidation ==
  inflight = EmptyBag =>
    /\ \A i \in reachable_docs(receipt) : ledger_holds(receipt[i], "in")
    /\ \A i \in reachable_docs(delivery) : ledger_holds(delivery[i], "out")
    /\ \A sku \in DOMAIN product :
         LET d == validated_total(receipt, sku, 1) - validated_total(delivery, sku, 1)
         IN /\ product[sku].on_hand = start[sku].on_hand + d
            /\ product[sku].free_to_use = start[sku].free_to_use + d

\* Two validations of one receipt in flight together, both with their $incs
\* and Moves issued and Done still to persist: two Moves per line and the
\* product up by twice what the lines ask of it.
C13_Witness ==
  \E i \in reachable_docs(receipt) :
    LET rec == receipt[i]
        sku == rec.lines[1].product_sku
    IN /\ Len(rec.lines) >= 1
       /\ sku \in DOMAIN product
       /\ rec.status = "Ready"
       /\ \E r \in Requests :
            /\ r.kind = "receipt" /\ r.reference = rec.reference
            /\ r.status = "Done" /\ r.ops = persist
            /\ CopiesIn(r, inflight) = 2
       /\ Len(moves_of(move, rec.reference)) = 2 * Len(rec.lines)
       /\ Len(move) = 2 * Len(rec.lines)
       /\ product[sku].on_hand = start[sku].on_hand + 2 * line_total(rec.lines, sku)
       /\ product[sku].free_to_use = start[sku].free_to_use + 2 * line_total(rec.lines, sku)

\* C14: once Done is stored for an operation, no step stores Draft, Ready or
\* Waiting for it again.
C14_DoneStays ==
  [][/\ \A i \in 1..Len(receipt) :
          receipt[i].status = "Done" => receipt'[i].status \notin NonTerminal
     /\ \A i \in 1..Len(delivery) :
          delivery[i].status = "Done" => delivery'[i].status \notin NonTerminal]_vars

\* The references a creation may hold when the collection has n documents:
\* the prefix and the four digits of any count up to n, plus one.
references_upto(prefix, n) == {prefix \o FourDigits(k) : k \in 1..n}

\* C17: a creation numbers its document from the count it read, whatever was
\* inserted since: the n-th document stored carries the count plus one of a
\* collection of fewer than n documents, and so does the document of a
\* creation still to insert; nothing keeps two documents from carrying the
\* same reference.
C17_ReferenceFromCount ==
  /\ \A n \in 1..Len(receipt) : receipt[n].reference \in references_upto("WH/IN/", n)
  /\ \A n \in 1..Len(delivery) : delivery[n].reference \in references_upto("WH/OUT/", n)
  /\ \A r \in Creating :
       r.reference \in (IF r.kind = "receipt"
                        THEN references_upto("WH/IN/", Len(receipt) + 1)
                        ELSE references_upto("WH/OUT/", Len(delivery) + 1))

\* Two receipts stored with one reference, their lines not the same.
C17_Witness ==
  /\ Len(receipt) = 2
  /\ receipt[1].reference = receipt[2].reference
  /\ receipt[1].lines # receipt[2].lines
  /\ inflight = EmptyBag

\* Is sub a subsequence of seq (its elements, in its order, among seq's)?
RECURSIVE is_subsequence(_, _)
is_subsequence(sub, seq) ==
  IF sub = <<>> THEN TRUE
  ELSE IF seq = <<>> THEN FALSE
  ELSE IF Head(sub) = Head(seq) THEN is_subsequence(Tail(sub), Tail(seq))
  ELSE is_subsequence(sub, Tail(seq))
ops_left(r, op) == Len(SelectSeq(r.ops, LAMBDA o : o.op = op))
\* The requests whose local status is Done: in the validate branch, or with
\* Done loaded and nothing but update_one to issue.
Validating == {r \in Requests : r.status = "Done" /\ ops_left(r, "check") = 0
                                  /\ ops_left(r, "insert") = 0}
\* The document r loaded, as stored, and the Moves r has appended so far.
loaded(r) == IF r.kind = "receipt" THEN receipt[find_one(receipt, r.reference)]
             ELSE delivery[find_one(delivery, r.reference)]
appended(r) ==
  SubSeq(moves_expected([loaded(r) EXCEPT !.lines = r.lines],
                        IF r.kind = "receipt" THEN "in" ELSE "out"),
         1, Len(r.lines) - ops_left(r, "move"))

\* C18: for every validation in flight, once one of its Moves is in the
\* ledger none of its $incs is left to issue; the Moves it has appended are
\* in the ledger in line order and the ones left are the later lines' in line
\* order; and its update_one of Done comes after its last Move.
C18_TwoPasses ==
  \A r \in Validating :
    /\ ops_left(r, "move") < Len(r.lines) => ops_left(r, "inc") = 0
    /\ is_subsequence(appended(r), moves_of(move, r.reference))
    /\ \A j \in 1..ops_left(r, "move") :
         LET o == r.ops[ops_left(r, "inc") + j]
             line == r.lines[Len(r.lines) - ops_left(r, "move") + j]
         IN /\ o.op = "move"
            /\ o.doc.product_sku = line.product_sku
            /\ o.doc.quantity = line.quantity
    /\ r.ops[Len(r.ops)].op = "persist"
    /\ ops_left(r, "persist") = 1

\* A validation of two lines on two products in flight with its first Move
\* in the ledger and its second still to append: both products' quantities
\* have moved already, and the stored status is still Ready.
C18_Witness ==
  \E r \in Validating :
    /\ r.kind = "receipt"
    /\ Len(r.lines) = 2
    /\ r.lines[1].product_sku # r.lines[2].product_sku
    /\ ops_left(r, "move") = 1
    /\ Len(move) = 1 /\ move[1].product_sku = r.lines[1].product_sku
    /\ loaded(r).status = "Ready"
    /\ \A sku \in DOMAIN product : product[sku].on_hand > start[sku].on_hand
    /\ DOMAIN product = Skus

\* The quantities of the ledger's Moves of one sku and one direction, summed.
RECURSIVE ledger_total(_, _, _)
ledger_total(mv, sku, direction) ==
  IF mv = <<>> THEN 0
  ELSE (IF Head(mv).product_sku = sku /\ Head(mv).direction = direction
        THEN Head(mv).quantity ELSE 0)
       + ledger_total(Tail(mv), sku, direction)

\* C20: with no request in flight, every product's on_hand and free_to_use
\* differ from their initial values by the "in" Moves of its sku less the
\* "out" Moves of its sku.
C20_StockMatchesLedger ==
  inflight = EmptyBag =>
    \A sku \in DOMAIN product :
      LET net == ledger_total(move, sku, "in") - ledger_total(move, sku, "out")
      IN /\ product[sku].on_hand - start[sku].on_hand = net
         /\ product[sku].free_to_use - start[sku].free_to_use = net

\* No request in flight, a product received and delivered (an "in" and an
\* "out" Move of its sku), back at its initial quantities.
C20_Witness ==
  /\ inflight = EmptyBag
  /\ \E sku \in DOMAIN product :
       /\ ledger_total(move, sku, "in") > 0
       /\ ledger_total(move, sku, "out") > 0
       /\ product[sku] = start[sku]

====
